---- MODULE Spec2Model ----
(***************************************************************************)
(* Model of src/src/gpusnatcher/gpu.py: the GPUManager class together with *)
(* the two module functions query_gpu and get_gpu_count it relies on.      *)
(*                                                                         *)
(* An optional Python value (X | None) is a set with at most one element:  *)
(* None is {} and a present value v is {v}.  A dict is a function.  A GPU  *)
(* is the record [index, memory_free, memory_total] (the keys "index",     *)
(* "memory.free" and "memory.total" of query_gpu).  CUDA_VISIBLE_DEVICES   *)
(* is the sequence of its comma-separated tokens, each token the sequence  *)
(* of its decimal digits.  The free-memory threshold is the rational       *)
(* t / ThrDen, stored as its numerator t; the comparison of line 73 is     *)
(* cross-multiplied, which is exact for the integers and thresholds here.  *)
(***************************************************************************)
EXTENDS Integers, Sequences, FiniteSets

\* ------------------------------------------------------------------ bounds
MaxGpuCount == 3
MaxRequest == 5
MaxSnatched == 4
MaxIndex == 2
MaxEnvLen == 2
MaxMem == 2
MaxFreeLen == 2
ThrDen == 2

VARIABLES
    gpu_counts,                       \* what get_gpu_count() reports on this host
    obj,                              \* "unconstructed" | "constructed" | "failed"
    num_gpus_arg,                     \* the num_gpus argument given to __init__
    num_gpus,                         \* self.num_gpus
    gpu_free_memory_ratio_threshold,  \* self.gpu_free_memory_ratio_threshold (numerator)
    snatched_gpus,                    \* self.snatched_gpus
    gpu_maps,                         \* self._gpu_maps
    op,                               \* the most recent operation
    gpus,                             \* the GPU list that operation worked on (None: no list)
    cuda_visible,                     \* CUDA_VISIBLE_DEVICES in the environment of that operation
    ret,                              \* what it returned (None: it returned nothing)
    err                               \* the exception it raised ("" when it returned)

vars == <<gpu_counts, obj, num_gpus_arg, num_gpus, gpu_free_memory_ratio_threshold,
          snatched_gpus, gpu_maps, op, gpus, cuda_visible, ret, err>>

\* ---------------------------------------------------------- Python values
None == {}

Some(v) == {v}

Val(o) == CHOOSE v \in o : TRUE

Max(a, b) == IF a >= b THEN a ELSE b

\* -------------------------------------------------------------- input sets
Gpu(i, f, t) == [index |-> i, memory_free |-> f, memory_total |-> t]

\* nvidia-smi lists GPUs by increasing index: position i of a listing that
\* shows the index set S holds the i-th smallest index of S.
Listing(S, mem) ==
    [i \in 1..Cardinality(S) |->
        LET x == CHOOSE y \in S : Cardinality({z \in S : z < y}) = i - 1
        IN  Gpu(x, mem[x][1], mem[x][2])]

MemPairs == {<<f, t>> \in {0, 1, MaxMem} \X {1, MaxMem} : f <= t}

\* Listings of any subset of the indices 0..MaxIndex, every GPU fully free.
IndexListings ==
    {Listing(S, [x \in S |-> <<MaxMem, MaxMem>>]) : S \in SUBSET (0..MaxIndex)}

\* Listings of the first k GPUs of a host, each with its own memory figures.
MemoryListings ==
    UNION {{Listing(0..(k - 1), m) : m \in [0..(k - 1) -> MemPairs]} : k \in 0..MaxFreeLen}

Digit(d) == <<d>>

\* CUDA_VISIBLE_DEVICES: unset, or 1..MaxEnvLen tokens, each one index.
EnvValues ==
    {None}
    \cup {Some(s) : s \in UNION {[1..k -> {Digit(d) : d \in 0..MaxIndex}] : k \in 1..MaxEnvLen}}
    \cup {Some(<<<<0, 1>>>>)}

EnvFew == {None, Some(<<Digit(1)>>), Some(<<Digit(1), Digit(0)>>)}

Thresholds == (0 - 1)..(ThrDen + 1)

Requests == (0 - MaxRequest)..MaxRequest

\* --------------------------------------------------------------- functions
RECURSIVE IntOf(_)
\* int(token): the decimal value of a string of digits.
IntOf(s) == IF Len(s) = 0 THEN 0 ELSE IntOf(SubSeq(s, 1, Len(s) - 1)) * 10 + s[Len(s)]

\* map(int, cuda_visible.split(","))
VisibleIndices(cv) == [i \in DOMAIN cv |-> IntOf(cv[i])]

\* x in <iterator>: a search along the sequence.
In(x, seq) == \E i \in DOMAIN seq : seq[i] = x

\* {gpu["index"]: i for i, gpu in enumerate(visible_gpus)}: a later entry with
\* the same key replaces an earlier one.
EnumerateByIndex(visible_gpus) ==
    [p \in {visible_gpus[i].index : i \in DOMAIN visible_gpus} |->
        (CHOOSE i \in DOMAIN visible_gpus :
            /\ visible_gpus[i].index = p
            /\ \A j \in DOMAIN visible_gpus : visible_gpus[j].index = p => j <= i) - 1]

get_visible_gpus_accumulate(maps, gs, cv) ==
    IF cv = None
    THEN [ret |-> gs, gpu_maps |-> maps]
    ELSE LET keep(gpu) == In(gpu.index, VisibleIndices(Val(cv)))
             visible_gpus == SelectSeq(gs, keep)
             new == EnumerateByIndex(visible_gpus)
             old == IF maps = None THEN new ELSE Val(maps)
         IN  [ret |-> visible_gpus,
              gpu_maps |-> Some([p \in DOMAIN old \cup DOMAIN new |->
                                    IF p \in DOMAIN new THEN new[p] ELSE old[p]])]

get_visible_gpus_reset(maps, gs, cv) ==
    IF cv = None
    THEN [ret |-> gs, gpu_maps |-> None]
    ELSE LET keep(gpu) == In(gpu.index, VisibleIndices(Val(cv)))
             visible_gpus == SelectSeq(gs, keep)
         IN  [ret |-> visible_gpus, gpu_maps |-> Some(EnumerateByIndex(visible_gpus))]

get_visible_gpus_by_restriction(maps, gs, cv) ==
    IF cv = None
    THEN [ret |-> gs, gpu_maps |-> maps]
    ELSE LET want == VisibleIndices(Val(cv))
             keep(gpu) == In(gpu.index, want)
             visible_gpus == SelectSeq(gs, keep)
         IN  [ret |-> visible_gpus,
              gpu_maps |-> Some([p \in {visible_gpus[i].index : i \in DOMAIN visible_gpus} |->
                                    (CHOOSE i \in DOMAIN want :
                                        want[i] = p /\ \A j \in 1..(i - 1) : want[j] # p) - 1])]

get_visible_gpus_restriction_order(maps, gs, cv) ==
    IF cv = None
    THEN [ret |-> gs, gpu_maps |-> maps]
    ELSE LET want == VisibleIndices(Val(cv))
             shown(i) == \E k \in DOMAIN gs : gs[k].index = want[i]
             first(i) == \A j \in 1..(i - 1) : want[j] # want[i]
             picks == SelectSeq([i \in DOMAIN want |-> i], LAMBDA i : shown(i) /\ first(i))
             visible_gpus ==
                 [k \in DOMAIN picks |-> gs[CHOOSE n \in DOMAIN gs : gs[n].index = want[picks[k]]]]
         IN  [ret |-> visible_gpus, gpu_maps |-> Some(EnumerateByIndex(visible_gpus))]

\* GPUManager.get_visible_gpus: the returned list and the new self._gpu_maps.
get_visible_gpus(maps, gs, cv) ==
    IF cv = None
    THEN [ret |-> gs, gpu_maps |-> maps]
    ELSE LET keep(gpu) == In(gpu.index, VisibleIndices(Val(cv)))
             visible_gpus == SelectSeq(gs, keep)
         IN  [ret |-> visible_gpus, gpu_maps |-> Some(EnumerateByIndex(visible_gpus))]

IsFree_at_least(gpu, thr) == gpu.memory_free * ThrDen >= thr * gpu.memory_total

IsFree_clamped(gpu, thr) == gpu.memory_free * ThrDen > Max(thr, 0) * gpu.memory_total

\* gpu["memory.free"] / gpu["memory.total"] > self.gpu_free_memory_ratio_threshold
IsFree(gpu, thr) == gpu.memory_free * ThrDen > thr * gpu.memory_total

\* query_gpu: nvidia-smi either fails (outcome None) or prints a listing.
query_gpu(outcome) ==
    IF outcome = None
    THEN [raised |-> "RuntimeError", value |-> None]
    ELSE [raised |-> "", value |-> outcome]

get_free_gpus_free_first(maps, thr, outcome, cv) ==
    LET q == query_gpu(outcome)
    IN  IF q.raised # ""
        THEN [raised |-> q.raised, ret |-> None, gpu_maps |-> maps]
        ELSE LET free(gpu) == IsFree(gpu, thr)
                 v == get_visible_gpus(maps, SelectSeq(Val(q.value), free), cv)
             IN  [raised |-> "", ret |-> Some(v.ret), gpu_maps |-> v.gpu_maps]

\* GPUManager.get_free_gpus: the exception or the returned list, and the new
\* self._gpu_maps.
get_free_gpus(maps, thr, outcome, cv) ==
    LET q == query_gpu(outcome)
    IN  IF q.raised # ""
        THEN [raised |-> q.raised, ret |-> None, gpu_maps |-> maps]
        ELSE IF q.value = None
        THEN [raised |-> "", ret |-> Some(<<>>), gpu_maps |-> maps]
        ELSE LET v == get_visible_gpus(maps, Val(q.value), cv)
                 free(gpu) == IsFree(gpu, thr)
             IN  [raised |-> "", ret |-> Some(SelectSeq(v.ret, free)), gpu_maps |-> v.gpu_maps]

get_num_gpus_sign_first(n, counts) ==
    IF n < 0
    THEN [raised |-> "ValueError", value |-> 0]
    ELSE IF n > counts
    THEN [raised |-> "", value |-> counts]
    ELSE [raised |-> "", value |-> n]

\* GPUManager.get_num_gpus with get_gpu_count() = counts.
get_num_gpus(n, counts) ==
    IF n = 0 - 1 \/ n > counts
    THEN [raised |-> "", value |-> counts]
    ELSE IF n < 0
    THEN [raised |-> "ValueError", value |-> 0]
    ELSE [raised |-> "", value |-> n]

\* GPUManager.num_snatched_gpus
num_snatched_gpus == Len(snatched_gpus)

get_num_gpus_needed_unclamped == num_gpus - num_snatched_gpus

\* GPUManager.get_num_gpus_needed
get_num_gpus_needed == Max(num_gpus - num_snatched_gpus, 0)

\* ------------------------------------------------------------------ actions
InitOn(counts) ==
    /\ gpu_counts \in counts
    /\ obj = "unconstructed"
    /\ num_gpus_arg = 0
    /\ num_gpus = 0
    /\ gpu_free_memory_ratio_threshold = 0
    /\ snatched_gpus = <<>>
    /\ gpu_maps = None
    /\ op = "none"
    /\ gpus = None
    /\ cuda_visible = None
    /\ ret = None
    /\ err = ""

Init == InitOn(0..MaxGpuCount)

InitHost == InitOn({MaxGpuCount})

\* GPUManager(n, thr)
New(n, thr) ==
    /\ obj = "unconstructed"
    /\ LET r == get_num_gpus(n, gpu_counts)
       IN  /\ obj' = IF r.raised = "" THEN "constructed" ELSE "failed"
           /\ num_gpus' = IF r.raised = "" THEN r.value ELSE num_gpus
           /\ gpu_free_memory_ratio_threshold' =
                  IF r.raised = "" THEN thr ELSE gpu_free_memory_ratio_threshold
           /\ err' = r.raised
    /\ num_gpus_arg' = n
    /\ op' = "__init__"
    /\ snatched_gpus' = <<>>
    /\ gpu_maps' = None
    /\ gpus' = None
    /\ cuda_visible' = None
    /\ ret' = None
    /\ UNCHANGED gpu_counts

\* The surrounding system records a snatch: self.snatched_gpus.append(handle).
Snatch ==
    /\ obj = "constructed"
    /\ Len(snatched_gpus) < MaxSnatched
    /\ snatched_gpus' = Append(snatched_gpus, "handle")
    /\ op' = "append"
    /\ gpus' = None
    /\ cuda_visible' = None
    /\ ret' = None
    /\ err' = ""
    /\ UNCHANGED <<gpu_counts, obj, num_gpus_arg, num_gpus,
                   gpu_free_memory_ratio_threshold, gpu_maps>>

NumSnatchedGpus ==
    /\ obj = "constructed"
    /\ op' = "num_snatched_gpus"
    /\ ret' = Some(num_snatched_gpus)
    /\ gpus' = None
    /\ cuda_visible' = None
    /\ err' = ""
    /\ UNCHANGED <<gpu_counts, obj, num_gpus_arg, num_gpus,
                   gpu_free_memory_ratio_threshold, snatched_gpus, gpu_maps>>

GetNumGpusNeeded ==
    /\ obj = "constructed"
    /\ op' = "get_num_gpus_needed"
    /\ ret' = Some(get_num_gpus_needed)
    /\ gpus' = None
    /\ cuda_visible' = None
    /\ err' = ""
    /\ UNCHANGED <<gpu_counts, obj, num_gpus_arg, num_gpus,
                   gpu_free_memory_ratio_threshold, snatched_gpus, gpu_maps>>

\* self.get_visible_gpus(gs) with CUDA_VISIBLE_DEVICES = cv
GetVisibleGpus(gs, cv) ==
    /\ obj = "constructed"
    /\ LET r == get_visible_gpus(gpu_maps, gs, cv)
       IN  /\ ret' = Some(r.ret)
           /\ gpu_maps' = r.gpu_maps
    /\ op' = "get_visible_gpus"
    /\ gpus' = Some(gs)
    /\ cuda_visible' = cv
    /\ err' = ""
    /\ UNCHANGED <<gpu_counts, obj, num_gpus_arg, num_gpus,
                   gpu_free_memory_ratio_threshold, snatched_gpus>>

\* self.get_free_gpus() when nvidia-smi gives outcome and
\* CUDA_VISIBLE_DEVICES = cv
GetFreeGpus(outcome, cv) ==
    /\ obj = "constructed"
    /\ LET r == get_free_gpus(gpu_maps, gpu_free_memory_ratio_threshold, outcome, cv)
       IN  /\ ret' = r.ret
           /\ gpu_maps' = r.gpu_maps
           /\ err' = r.raised
    /\ op' = "get_free_gpus"
    /\ gpus' = outcome
    /\ cuda_visible' = cv
    /\ UNCHANGED <<gpu_counts, obj, num_gpus_arg, num_gpus,
                   gpu_free_memory_ratio_threshold, snatched_gpus>>

\* ----------------------------------------------------------- specifications
\* Construction and the count of GPUs still needed.
NextTarget ==
    \/ \E n \in Requests : New(n, 1)
    \/ Snatch
    \/ NumSnatchedGpus
    \/ GetNumGpusNeeded
    \/ \E outcome \in {None, Some(<<>>)} : GetFreeGpus(outcome, None)

SpecTarget == Init /\ [][NextTarget]_vars

\* Visibility filtering and the index map.
NextVisible ==
    \/ New(0 - 1, 1)
    \/ \E gs \in IndexListings, cv \in EnvValues : GetVisibleGpus(gs, cv)
    \/ \E gs \in IndexListings, cv \in EnvFew : GetFreeGpus(Some(gs), cv)
    \/ \E cv \in EnvFew : GetFreeGpus(None, cv)

SpecVisible == InitHost /\ [][NextVisible]_vars

\* The free-memory test.
NextFree ==
    \/ \E thr \in Thresholds : New(0 - 1, thr)
    \/ \E gs \in MemoryListings, cv \in EnvFew : GetFreeGpus(Some(gs), cv)
    \/ \E cv \in EnvFew : GetFreeGpus(None, cv)

SpecFree == InitHost /\ [][NextFree]_vars

Next == NextTarget \/ NextVisible \/ NextFree

Spec == Init /\ [][Next]_vars

\* ------------------------------------------------------------------ claims
\* Helpers of the statements below, over the most recent operation.
Restriction == VisibleIndices(Val(cuda_visible))

Allowed == {Restriction[i] : i \in DOMAIN Restriction}

\* Position i of the GPU list passes the visibility restriction.
Shown(i) == cuda_visible = None \/ Val(gpus)[i].index \in Allowed

ShownPositions == {i \in DOMAIN Val(gpus) : Shown(i)}

\* The number of visible GPUs listed before position i.
Rank(i) == Cardinality({j \in ShownPositions : j < i})

ShownSeq == SelectSeq(Val(gpus), LAMBDA gpu : cuda_visible = None \/ gpu.index \in Allowed)

RatioAbove(gpu) ==
    gpu.memory_free * ThrDen - gpu_free_memory_ratio_threshold * gpu.memory_total > 0

RatioEqual(gpu) ==
    gpu.memory_free * ThrDen = gpu_free_memory_ratio_threshold * gpu.memory_total

Returned(gpu) == \E k \in DOMAIN Val(ret) : Val(ret)[k] = gpu

\* 0-based position of the first occurrence of p in the restriction sequence.
RestrictionPosition(p) ==
    (CHOOSE i \in DOMAIN Restriction :
        Restriction[i] = p /\ \A j \in 1..(i - 1) : Restriction[j] # p) - 1

Filtered ==
    /\ op \in {"get_visible_gpus", "get_free_gpus"}
    /\ err = ""
    /\ cuda_visible # None

FreeListed == op = "get_free_gpus" /\ err = ""

\* C1: when the telemetry query fails, get_free_gpus returns an empty list
\* instead of propagating the failure.
C1_EmptyOnQueryFailure ==
    (op = "get_free_gpus" /\ gpus = None) => (err = "" /\ ret = Some(<<>>))

\* C2: a visible GPU is in the result of get_free_gpus exactly when its own
\* memory_free / memory_total is strictly above the threshold; a GPU whose
\* ratio equals the threshold is not returned; the result keeps the order of
\* the telemetry.
C2_FreeIffAboveThreshold ==
    FreeListed =>
        LET g == Val(gpus)
            r == Val(ret)
        IN  /\ \A i \in DOMAIN g : Shown(i) => (Returned(g[i]) <=> RatioAbove(g[i]))
            /\ \A i \in DOMAIN g : (Shown(i) /\ RatioEqual(g[i])) => ~Returned(g[i])
            /\ \A k \in DOMAIN r : \E i \in ShownPositions : g[i] = r[k]
            /\ \A k, l \in DOMAIN r :
                   k < l => \E i, j \in DOMAIN g : i < j /\ g[i] = r[k] /\ g[j] = r[l]

C2_Witness ==
    /\ FreeListed
    /\ gpu_free_memory_ratio_threshold > 0
    /\ \E i, j \in ShownPositions :
           /\ RatioEqual(Val(gpus)[i]) /\ ~Returned(Val(gpus)[i])
           /\ Returned(Val(gpus)[j])

C3_State ==
    obj = "constructed" =>
        LET d == num_gpus - num_snatched_gpus
        IN  /\ get_num_gpus_needed >= 0
            /\ d >= 0 => get_num_gpus_needed = d
            /\ d < 0 => get_num_gpus_needed = 0
            /\ op = "get_num_gpus_needed" => ret = Some(IF d >= 0 THEN d ELSE 0)

C3_Step ==
    (obj = "constructed" /\ Len(snatched_gpus') >= Len(snatched_gpus))
        => get_num_gpus_needed' <= get_num_gpus_needed

\* C3: get_num_gpus_needed is never negative, is num_gpus - num_snatched_gpus
\* when that is non-negative and 0 otherwise, is computed from the current
\* length of snatched_gpus on each call, and never increases as snatched_gpus
\* grows.
C3_NeededClamped == [](C3_State) /\ [][C3_Step]_vars

C3_Witness ==
    /\ op = "get_num_gpus_needed"
    /\ num_gpus > 0
    /\ num_snatched_gpus > num_gpus
    /\ ret = Some(0)

\* C4: construction resolves the requested count r against the host count n:
\* r = -1 gives n; r > n gives n; r < -1 fails with ValueError and yields no
\* object; otherwise r.  Every constructed object has 0 <= num_gpus <= n.
C4_TargetResolved ==
    obj # "unconstructed" =>
        LET r == num_gpus_arg
            n == gpu_counts
        IN  /\ r = 0 - 1 => (obj = "constructed" /\ num_gpus = n)
            /\ r > n => (obj = "constructed" /\ num_gpus = n)
            /\ r < 0 - 1 => (obj = "failed" /\ err = "ValueError")
            /\ (0 <= r /\ r <= n) => (obj = "constructed" /\ num_gpus = r)
            /\ obj = "constructed" => (0 <= num_gpus /\ num_gpus <= n)
            /\ obj = "failed" => r < 0 - 1

C4_Witness ==
    /\ obj = "constructed"
    /\ op = "__init__"
    /\ num_gpus_arg > gpu_counts
    /\ gpu_counts > 0
    /\ num_gpus = gpu_counts

\* C5: with a restriction present, get_visible_gpus returns exactly the GPUs
\* whose index occurs in the restriction, in the order of the telemetry, and
\* sets the index map to {index -> position in the returned list}; restriction
\* 2,0 over telemetry 0,1,2 returns [0, 2] with map {0: 0, 2: 1}; a restriction
\* entry that matches no GPU adds nothing and raises nothing.
C5_FilterKeepsTelemetryOrder ==
    (op = "get_visible_gpus" /\ cuda_visible # None) =>
        LET g == Val(gpus)
            r == Val(ret)
        IN  /\ err = ""
            /\ gpu_maps # None
            /\ Len(r) = Cardinality(ShownPositions)
            /\ \A i \in ShownPositions : r[Rank(i) + 1] = g[i]
            /\ DOMAIN Val(gpu_maps) = {r[k].index : k \in DOMAIN r}
            /\ \A k \in DOMAIN r : Val(gpu_maps)[r[k].index] = k - 1
            /\ ([i \in DOMAIN g |-> g[i].index] = <<0, 1, 2>> /\ Restriction = <<2, 0>>)
                   => /\ [k \in DOMAIN r |-> r[k].index] = <<0, 2>>
                      /\ Val(gpu_maps) = [p \in {0, 2} |-> IF p = 0 THEN 0 ELSE 1]

C5_Witness ==
    /\ op = "get_visible_gpus"
    /\ cuda_visible # None
    /\ Restriction = <<2, 0>>
    /\ [i \in DOMAIN Val(gpus) |-> Val(gpus)[i].index] = <<0, 1, 2>>
    /\ Len(Val(ret)) = 2

\* C6 as stated: after any get_visible_gpus call with no restriction the
\* returned list equals the input and the index map is absent.
C6_UnsetAfterUnrestricted ==
    (op = "get_visible_gpus" /\ cuda_visible = None) => (ret = gpus /\ gpu_maps = None)

\* C6 amended: a get_visible_gpus call with no restriction returns its input
\* and leaves the index map as it was before the call.
C6_UntouchedByUnrestricted ==
    [][(op' = "get_visible_gpus" /\ cuda_visible' = None)
           => (ret' = gpus' /\ err' = "" /\ gpu_maps' = gpu_maps)]_vars

C6_Witness ==
    /\ op = "get_visible_gpus"
    /\ cuda_visible = None
    /\ ret = gpus
    /\ gpu_maps # None
    /\ DOMAIN Val(gpu_maps) # {}

\* C7 as stated: the logical index the map gives a visible physical index is
\* the position of that index within the restriction sequence.
C7_LogicalIsRestrictionPosition ==
    Filtered => \A p \in DOMAIN Val(gpu_maps) : Val(gpu_maps)[p] = RestrictionPosition(p)

\* C7 amended: the logical index the map gives a visible physical index is the
\* number of visible GPUs listed before it in the telemetry.
C7_LogicalIsTelemetryRank ==
    Filtered =>
        /\ gpu_maps # None
        /\ \A i \in ShownPositions : Val(gpus)[i].index \in DOMAIN Val(gpu_maps)
        /\ \A i \in ShownPositions : Val(gpu_maps)[Val(gpus)[i].index] = Rank(i)

C7_Witness ==
    /\ Filtered
    /\ op = "get_free_gpus"
    /\ \E p \in DOMAIN Val(gpu_maps) : Val(gpu_maps)[p] # RestrictionPosition(p)

OutOfRange == gpu_free_memory_ratio_threshold <= 0 \/ gpu_free_memory_ratio_threshold >= ThrDen

\* C8 as stated: a threshold <= 0 or >= 1 is accepted and makes the test
\* constant: every visible GPU is reported free, or none is.
C8_DegenerateOutsideOpenInterval ==
    (op = "get_free_gpus" /\ gpus # None /\ OutOfRange) =>
        /\ err = ""
        /\ ret = Some(ShownSeq) \/ ret = Some(<<>>)

\* C8 amended: a threshold < 0 reports every visible GPU free and a threshold
\* >= 1 reports none; a threshold of exactly 0 reports the visible GPUs with
\* memory_free > 0; no call fails because of the threshold.
C8_DegenerateBySign ==
    (op = "get_free_gpus" /\ gpus # None /\ OutOfRange) =>
        /\ err = ""
        /\ gpu_free_memory_ratio_threshold < 0 => ret = Some(ShownSeq)
        /\ gpu_free_memory_ratio_threshold >= ThrDen => ret = Some(<<>>)
        /\ gpu_free_memory_ratio_threshold = 0 =>
               ret = Some(SelectSeq(ShownSeq, LAMBDA gpu : gpu.memory_free > 0))

C8_Witness ==
    /\ FreeListed
    /\ gpu_free_memory_ratio_threshold < 0
    /\ \E k \in DOMAIN Val(ret) : Val(ret)[k].memory_free = 0

\* The map a filtering call builds, from that call's inputs alone.
MapOfCall ==
    [p \in {Val(gpus)[i].index : i \in ShownPositions} |->
        Rank(CHOOSE i \in ShownPositions : Val(gpus)[i].index = p)]

\* C9: the index map is absent until a call filters with a restriction
\* present; each such call replaces the whole map by the one it builds; a call
\* with no restriction and a get_free_gpus call whose query fails leave it as
\* it was.
C9_LastFilteringWins ==
    /\ gpu_maps = None
    /\ [][IF Filtered' THEN gpu_maps' = Some(MapOfCall') ELSE gpu_maps' = gpu_maps]_vars

C9_Witness ==
    /\ op = "get_free_gpus"
    /\ err = "RuntimeError"
    /\ gpu_maps # None
    /\ DOMAIN Val(gpu_maps) # {}

\* C10: after a successful get_free_gpus with a restriction present the map is
\* keyed by the indices of all visible GPUs, free or not, its values are
\* 0..k-1 each used once, every returned GPU has an entry, and that entry is
\* its position among the visible GPUs, not its position in the returned list.
C10_MapCoversVisible ==
    (FreeListed /\ cuda_visible # None) =>
        LET g == Val(gpus)
            r == Val(ret)
            m == Val(gpu_maps)
            busy_before(gpu) ==
                Cardinality({i \in ShownPositions :
                                /\ ~RatioAbove(g[i])
                                /\ \E j \in DOMAIN g : g[j] = gpu /\ i < j})
        IN  /\ gpu_maps # None
            /\ DOMAIN m = {g[i].index : i \in ShownPositions}
            /\ {m[p] : p \in DOMAIN m} = 0..(Cardinality(ShownPositions) - 1)
            /\ \A p, q \in DOMAIN m : m[p] = m[q] => p = q
            /\ \A k \in DOMAIN r :
                   /\ r[k].index \in DOMAIN m
                   /\ m[r[k].index] = (k - 1) + busy_before(r[k])

C10_Witness ==
    /\ FreeListed
    /\ cuda_visible # None
    /\ \E k \in DOMAIN Val(ret) : Val(gpu_maps)[Val(ret)[k].index] # k - 1


====
